---- MODULE Spec2Model ----
(***************************************************************************)
(* Cosmic Impact: the physics engine (services/geminiService.ts,           *)
(* analyzeAsteroid, local and remote) as a state machine of invocations,    *)
(* and the App component that consumes it (App.tsx).                        *)
(*                                                                          *)
(* Numbers.  The engine computes in double precision.  The model computes   *)
(* exactly:                                                                 *)
(*   - the impact probability is a fraction [num, den] (den > 0);           *)
(*   - a physical quantity is a monomial  n/d * 2^e2 * 5^e5 * pi^p  kept in *)
(*     canonical form, so that equal values are equal records;              *)
(*   - the crater size, a product of fractional powers, is a symbolic       *)
(*     product whose zero and NaN cases are computed as Math.pow does.      *)
(* Inputs are integers (diameter in m, velocity in km/s, distance in km).   *)
(***************************************************************************)
EXTENDS Integers, Sequences, FiniteSets, TLC

VARIABLES
    calls,          \* call id -> that invocation of analyzeAsteroid
    now,            \* the wall clock read by Date.now()
    env,            \* process.env
    appInput,       \* App: the state hook input, the form's AsteroidInput
    loading,        \* App: an analysis is under way
    appResult,      \* App: the state hook result, the one on display, or Null
    history,        \* App: the HistoryItems, newest first
    isSidebarOpen   \* App: the history drawer is open

engineVars == <<calls, now, env>>

appVars == <<appInput, loading, appResult, history, isSidebarOpen>>

vars == <<calls, now, env, appInput, loading, appResult, history, isSidebarOpen>>

----------------------------------------------------------------------------
(* Bounds of the model *)

\* the clock runs from 0 to MaxClock
MaxClock == 1
\* distances are swept one by one this far on each side of every boundary
BoundaryWindow == 24
\* and on a grid of GridStep km, MaxGrid steps long, in between
GridStep == 2000
MaxGrid == 26
\* the App analyses until its history holds MaxHistory items
MaxHistory == 2

----------------------------------------------------------------------------
(* types.ts *)

STONY == "Stony (Silicate)"
METALLIC == "Metallic (Iron-Nickel)"
ICY == "Icy (Cometary)"
CARBONACEOUS == "Carbonaceous (C-type)"

AsteroidType == {STONY, METALLIC, ICY, CARBONACEOUS}

\* a type value outside the enum, as an untyped caller can pass
UNRECOGNIZED == "Unrecognized"

----------------------------------------------------------------------------
(* Exact arithmetic.  The operators that recurse or nest deeply bind their    *)
(* arguments once, as in  CHOOSE r \in {F(x) : x \in {a}} : TRUE  for F(a), so   *)
(* that an argument is evaluated once however often the body uses it.        *)

Abs(x) == IF x < 0 THEN -x ELSE x

RECURSIVE GCD(_, _)
GCD(a, b) ==
    CHOOSE r \in {IF y = 0 THEN Abs(x) ELSE GCD(y, x % y) : x \in {a}, y \in {b}} : TRUE

\* the number of times the prime p divides n (n # 0)
RECURSIVE Valuation(_, _)
Valuation(n, p) ==
    CHOOSE r \in {IF m % p = 0 THEN 1 + Valuation(m \div p, p) ELSE 0 : m \in {n}} : TRUE

\* n with every factor p removed (n # 0)
RECURSIVE Strip(_, _)
Strip(n, p) ==
    CHOOSE r \in {IF m % p = 0 THEN Strip(m \div p, p) ELSE m : m \in {n}} : TRUE

\* the quantity 0
RZero == [n |-> 0, d |-> 1, e2 |-> 0, e5 |-> 0, p |-> 0]

\* the quantity num/den * 10^e10 * pi^p, in canonical form (den # 0)
Real(num, den, e10, p) ==
    IF num = 0 THEN RZero
    ELSE LET s  == IF den < 0 THEN -1 ELSE 1
             n0 == Strip(Strip(Abs(num), 2), 5)
             d0 == Strip(Strip(Abs(den), 2), 5)
             g  == GCD(n0, d0)
         IN  [n  |-> (IF num < 0 THEN -s ELSE s) * (n0 \div g),
              d  |-> d0 \div g,
              e2 |-> e10 + Valuation(Abs(num), 2) - Valuation(Abs(den), 2),
              e5 |-> e10 + Valuation(Abs(num), 5) - Valuation(Abs(den), 5),
              p  |-> p]

RInt(k) == Real(k, 1, 0, 0)

RMul(x, y) ==
    CHOOSE r \in
        { IF a.n = 0 \/ b.n = 0 THEN RZero
          ELSE LET g1 == GCD(a.n, b.d)
                   g2 == GCD(b.n, a.d)
               IN  [n  |-> (a.n \div g1) * (b.n \div g2),
                    d  |-> (a.d \div g2) * (b.d \div g1),
                    e2 |-> a.e2 + b.e2,
                    e5 |-> a.e5 + b.e5,
                    p  |-> a.p + b.p] : a \in {x}, b \in {y} } : TRUE

\* x / y (y # 0)
RDiv(x, y) ==
    CHOOSE r \in
        { RMul(x, [n  |-> (IF b.n < 0 THEN -1 ELSE 1) * b.d,
                   d  |-> Abs(b.n),
                   e2 |-> -b.e2,
                   e5 |-> -b.e5,
                   p  |-> -b.p]) : b \in {y} } : TRUE

\* Math.pow(x, k) for a natural k
RECURSIVE RPow(_, _)
RPow(x, k) == CHOOSE r \in {IF k = 0 THEN RInt(1) ELSE RMul(a, RPow(a, k - 1)) : a \in {x}} : TRUE

\* Math.PI
PI == Real(1, 1, 0, 1)

----------------------------------------------------------------------------
(* services/geminiService.ts: physics constants *)

DENSITY_MAP ==
    [t \in AsteroidType |->
        CASE t = STONY        -> 2700
          [] t = METALLIC     -> 7870
          [] t = ICY          -> 1000
          [] t = CARBONACEOUS -> 1300]

\* 4.184e15 J, one megaton of TNT
TNT_JOULES == Real(4184, 1, 12, 0)

EARTH_RADIUS_KM == 6371

\* variant: the Stony density as the default
Density_DefaultStony(type) ==
    IF type \in DOMAIN DENSITY_MAP THEN DENSITY_MAP[type] ELSE 2700

\* const density = DENSITY_MAP[input.type] || 2500
Density(type) == IF type \in DOMAIN DENSITY_MAP THEN DENSITY_MAP[type] ELSE 2500

----------------------------------------------------------------------------
(* Natural numbers of any size, as little-endian sequences of limbs below   *)
(* 1000, to compare quantities that do not fit a machine integer.       *)

RECURSIVE BigFromNat(_)
BigFromNat(k) ==
    CHOOSE r \in {IF m = 0 THEN <<>> ELSE <<m % 1000>> \o BigFromNat(m \div 1000) : m \in {k}} : TRUE

\* big * k + carry, for 0 <= k <= 2000000
RECURSIVE BigMulSmall(_, _, _)
BigMulSmall(big, k, carry) ==
    CHOOSE r \in
        { IF b = <<>> THEN BigFromNat(c)
          ELSE CHOOSE q \in { <<t % 1000>> \o BigMulSmall(Tail(b), k, t \div 1000) :
                                 t \in {Head(b) * k + c} } : TRUE :
          b \in {big}, c \in {carry} } : TRUE

\* big * b^k
RECURSIVE BigMulPow(_, _, _)
BigMulPow(big, b, k) ==
    CHOOSE r \in
        { IF j <= 0 \/ x = <<>> THEN x ELSE BigMulPow(BigMulSmall(x, b, 0), b, j - 1) :
          x \in {big}, j \in {k} } : TRUE

\* a < b, for sequences without leading zero limbs
RECURSIVE BigLess(_, _)
BigLess(a, b) ==
    CHOOSE r \in
        { IF Len(x) # Len(y) THEN Len(x) < Len(y)
          ELSE IF x = <<>> THEN FALSE
          ELSE LET i == Len(x)
               IN  IF x[i] # y[i] THEN x[i] < y[i]
                   ELSE BigLess(SubSeq(x, 1, i - 1), SubSeq(y, 1, i - 1)) :
          x \in {a}, y \in {b} } : TRUE

\* pi lies strictly between PiLo and PiHi (two convergents of its continued fraction)
PiLo == [num |-> 103993, den |-> 33102]

PiHi == [num |-> 355, den |-> 113]

\* x < 10^k for a quantity x with x.p \in {0, 1} and a natural k.  The two sides
\* are brought to naturals, L * pi^p < R, each power of 2 and of 5 going to the
\* side where its exponent is positive; with p = 1 the answer is taken from the
\* bound of pi that decides it (RDecided says that one does).
RLeft(x, k) == BigMulPow(BigMulPow(BigFromNat(Abs(x.n)), 2, x.e2 - k), 5, x.e5 - k)

RRight(x, k) == BigMulPow(BigMulPow(BigFromNat(x.d), 2, k - x.e2), 5, k - x.e5)

RDecided(x, k) ==
    \/ x.n <= 0
    \/ x.p = 0
    \/ BigLess(BigMulSmall(RLeft(x, k), PiHi.num, 0), BigMulSmall(RRight(x, k), PiHi.den, 0))
    \/ ~BigLess(BigMulSmall(RLeft(x, k), PiLo.num, 0), BigMulSmall(RRight(x, k), PiLo.den, 0))

RLessPow10(x, k) ==
    IF x.n <= 0 THEN TRUE
    ELSE IF x.p = 0 THEN BigLess(RLeft(x, k), RRight(x, k))
    ELSE BigLess(BigMulSmall(RLeft(x, k), PiHi.num, 0), BigMulSmall(RRight(x, k), PiHi.den, 0))

----------------------------------------------------------------------------
(* Fractions, for the impact probability *)

\* num/den in lowest terms (den > 0)
Frac(num, den) == [num |-> num \div GCD(num, den), den |-> den \div GCD(num, den)]

FracLess(a, b) == a.num * b.den < b.num * a.den

\* Number.prototype.toFixed(1) followed by parseFloat: the nearest multiple of
\* 0.1, a tie going away from zero
ToFixed1(x) ==
    LET m == (2 * 10 * Abs(x.num) + x.den) \div (2 * x.den)
    IN  Frac(IF x.num < 0 THEN -m ELSE m, 10)

FracMin(a, b) == IF FracLess(b, a) THEN b ELSE a

FracMax(a, b) == IF FracLess(a, b) THEN b ELSE a

----------------------------------------------------------------------------
(* services/geminiService.ts: analyzeAsteroid, 5. Impact Probability Logic *)

closeLimit == EARTH_RADIUS_KM + 2000

outerLimit == 50000

\* variant: the inner boundary of the code's comment, 8,000 km
ImpactLogic_Inner8000(distance) ==
    IF distance < 8000
    THEN [impactProb |-> Frac(100, 1), isHit |-> TRUE]
    ELSE IF distance < 50000
    THEN LET range    == outerLimit - 8000
             position == distance - 8000
             impactProb == Frac(100 * (range - position), range)
         IN  [impactProb |-> impactProb, isHit |-> FracLess(Frac(60, 1), impactProb)]
    ELSE [impactProb |-> Frac(0, 1), isHit |-> FALSE]

\* variant: an outer boundary of 500,000 km
ImpactLogic_Outer500000(distance) ==
    IF distance < (EARTH_RADIUS_KM + 2000)
    THEN [impactProb |-> Frac(100, 1), isHit |-> TRUE]
    ELSE IF distance < 500000
    THEN LET range    == 500000 - closeLimit
             position == distance - closeLimit
             impactProb == Frac(100 * (range - position), range)
         IN  [impactProb |-> impactProb, isHit |-> FracLess(Frac(60, 1), impactProb)]
    ELSE [impactProb |-> Frac(0, 1), isHit |-> FALSE]

\* variant: the hit cutoff at 50, the threshold ResultsDisplay colours by
ImpactLogic_Cutoff50(distance) ==
    IF distance < (EARTH_RADIUS_KM + 2000)
    THEN [impactProb |-> Frac(100, 1), isHit |-> TRUE]
    ELSE IF distance < 50000
    THEN LET range    == outerLimit - closeLimit
             position == distance - closeLimit
             impactProb == Frac(100 * (range - position), range)
         IN  [impactProb |-> impactProb, isHit |-> FracLess(Frac(50, 1), impactProb)]
    ELSE [impactProb |-> Frac(0, 1), isHit |-> FALSE]

\* variant: 100 * (position / range), the decay turned into a rise
ImpactLogic_Rising(distance) ==
    IF distance < (EARTH_RADIUS_KM + 2000)
    THEN [impactProb |-> Frac(100, 1), isHit |-> TRUE]
    ELSE IF distance < 50000
    THEN LET range    == outerLimit - closeLimit
             position == distance - closeLimit
             impactProb == Frac(100 * position, range)
         IN  [impactProb |-> impactProb, isHit |-> FracLess(Frac(60, 1), impactProb)]
    ELSE [impactProb |-> Frac(0, 1), isHit |-> FALSE]

\* variant: isHit = impactProb < 60
ImpactLogic_HitBelow60(distance) ==
    IF distance < (EARTH_RADIUS_KM + 2000)
    THEN [impactProb |-> Frac(100, 1), isHit |-> TRUE]
    ELSE IF distance < 50000
    THEN LET range    == outerLimit - closeLimit
             position == distance - closeLimit
             impactProb == Frac(100 * (range - position), range)
         IN  [impactProb |-> impactProb, isHit |-> FracLess(impactProb, Frac(60, 1))]
    ELSE [impactProb |-> Frac(0, 1), isHit |-> FALSE]

\* the if / else if / else over input.distance: the probability before it is
\* cleaned up, and the hit flag
ImpactLogic(distance) ==
    IF distance < (EARTH_RADIUS_KM + 2000)
    THEN [impactProb |-> Frac(100, 1), isHit |-> TRUE]
    ELSE IF distance < 50000
    THEN LET range    == outerLimit - closeLimit
             position == distance - closeLimit
             \* 100 * (1 - (position / range))
             impactProb == Frac(100 * (range - position), range)
         IN  [impactProb |-> impactProb, isHit |-> FracLess(Frac(60, 1), impactProb)]
    ELSE [impactProb |-> Frac(0, 1), isHit |-> FALSE]

\* variant: the clamp without the rounding
CleanUp_Unrounded(impactProb) ==
    FracMax(Frac(0, 1), FracMin(Frac(100, 1), impactProb))

\* Math.max(0, Math.min(100, parseFloat(impactProb.toFixed(1))))
CleanUp(impactProb) ==
    FracMax(Frac(0, 1), FracMin(Frac(100, 1), ToFixed1(impactProb)))

----------------------------------------------------------------------------
(* services/geminiService.ts: getComposition *)

Element(element, percentage, fill) ==
    [element |-> element, percentage |-> percentage, fill |-> fill]

\* variant: Carbonaceous silicates entered as 20
getComposition_Typo(type) ==
    CASE type = STONY ->
            << Element("Silicates", 70, "#a8a29e"),
               Element("Iron/Nickel", 15, "#94a3b8"),
               Element("Pyroxene", 10, "#d6d3d1"),
               Element("Olivine", 5, "#86efac") >>
      [] type = METALLIC ->
            << Element("Iron", 85, "#64748b"),
               Element("Nickel", 14, "#cbd5e1"),
               Element("Iridium", 1, "#f1f5f9") >>
      [] type = ICY ->
            << Element("Water Ice", 60, "#bfdbfe"),
               Element("CO2 Ice", 20, "#e0f2fe"),
               Element("Dust", 15, "#7dd3fc"),
               Element("Organics", 5, "#0ea5e9") >>
      [] type = CARBONACEOUS ->
            << Element("Carbon", 45, "#475569"),
               Element("Water", 20, "#334155"),
               Element("Silicates", 20, "#94a3b8"),
               Element("Sulfides", 10, "#fbbf24") >>
      [] OTHER -> << >>

getComposition(type) ==
    CASE type = STONY ->
            << Element("Silicates", 70, "#a8a29e"),
               Element("Iron/Nickel", 15, "#94a3b8"),
               Element("Pyroxene", 10, "#d6d3d1"),
               Element("Olivine", 5, "#86efac") >>
      [] type = METALLIC ->
            << Element("Iron", 85, "#64748b"),
               Element("Nickel", 14, "#cbd5e1"),
               Element("Iridium", 1, "#f1f5f9") >>
      [] type = ICY ->
            << Element("Water Ice", 60, "#bfdbfe"),
               Element("CO2 Ice", 20, "#e0f2fe"),
               Element("Dust", 15, "#7dd3fc"),
               Element("Organics", 5, "#0ea5e9") >>
      [] type = CARBONACEOUS ->
            << Element("Carbon", 45, "#475569"),
               Element("Water", 20, "#334155"),
               Element("Silicates", 25, "#94a3b8"),
               Element("Sulfides", 10, "#fbbf24") >>
      [] OTHER -> << >>

----------------------------------------------------------------------------
(* Values that stay symbolic: a product of fractional powers *)

NaN == [kind |-> "NaN"]

Sym(coef, factors) == [kind |-> "number", coef |-> coef, factors |-> factors]

\* variant: the base 0 taken for an empty product
Pow_ZeroBaseOne(base, exp) ==
    IF base.n < 0 THEN NaN
    ELSE IF base.n = 0 /\ exp.num > 0 THEN Sym(RInt(1), << >>)
    ELSE Sym(RInt(1), << [base |-> base, exp |-> exp] >>)

\* Math.pow(base, exp) for a fraction exp that is no integer: NaN for a negative
\* base; for the base 0, 0 when exp > 0
Pow(base, exp) ==
    IF base.n < 0 THEN NaN
    ELSE IF base.n = 0 /\ exp.num > 0 THEN Sym(RZero, << >>)
    ELSE Sym(RInt(1), << [base |-> base, exp |-> exp] >>)

\* a * b
SymMul(a, b) ==
    IF a = NaN \/ b = NaN THEN NaN
    ELSE IF a.coef = RZero \/ b.coef = RZero THEN Sym(RZero, << >>)
    ELSE Sym(RMul(a.coef, b.coef), a.factors \o b.factors)

\* String.prototype.toUpperCase, on the strings the engine passes to it
toUpperCase(str) ==
    CASE str = "Neo-X1"                  -> "NEO-X1"
      [] str = "apophis"                 -> "APOPHIS"
      [] str = "Local Damage"            -> "LOCAL DAMAGE"
      [] str = "Regional Destruction"    -> "REGIONAL DESTRUCTION"
      [] str = "Continental Catastrophe" -> "CONTINENTAL CATASTROPHE"
      [] str = "Extinction Event"        -> "EXTINCTION EVENT"

\* a number rendered in a template string by a formatting method
Formatted(method, value, unit) == [method |-> method, value |-> value, unit |-> unit]

----------------------------------------------------------------------------
(* services/geminiService.ts: analyzeAsteroid, steps 1 to 6 *)

\* 6. Crater Estimation
CraterDiameter(density, diameter, velocityMs) ==
    LET rho_i == RInt(density)
        rho_t == RInt(2500)
        L     == RInt(diameter)
        v     == velocityMs
        g     == Real(981, 1, -2, 0)
        term1 == Pow(RDiv(rho_i, rho_t), Frac(1, 3))
        term2 == Pow(L, Frac(78, 100))
        term3 == Pow(v, Frac(44, 100))
        term4 == Pow(g, Frac(-22, 100))
    IN  SymMul(SymMul(SymMul(SymMul(Sym(Real(1161, 1, -3, 0), << >>), term1),
                             term2), term3), term4)

\* variant: the velocity squared in km/s and converted afterwards
Locals_ConvertAfterSquaring(input) ==
    LET density      == Density(input.type)
        radius       == Real(input.diameter, 2, 0, 0)
        volume       == RMul(RMul(Real(4, 3, 0, 0), PI), RPow(radius, 3))
        mass         == RMul(RInt(density), volume)
        velocityMs   == RMul(RInt(input.velocity), RInt(1000))
        energyJoules == RMul(RMul(RMul(Real(5, 1, -1, 0), mass),
                                  RPow(RInt(input.velocity), 2)), RInt(1000))
        energyMt     == RDiv(energyJoules, TNT_JOULES)
        logic        == ImpactLogic(input.distance)
    IN  [density        |-> density,
         radius         |-> radius,
         volume         |-> volume,
         mass           |-> mass,
         velocityMs     |-> velocityMs,
         energyJoules   |-> energyJoules,
         energyMt       |-> energyMt,
         rawImpactProb  |-> logic.impactProb,
         isHit          |-> logic.isHit,
         impactProb     |-> CleanUp(logic.impactProb),
         craterDiameter |-> CraterDiameter(density, input.diameter, velocityMs)]

\* the local constants of one invocation
Locals(input) ==
    LET density      == Density(input.type)
        radius       == Real(input.diameter, 2, 0, 0)
        volume       == RMul(RMul(Real(4, 3, 0, 0), PI), RPow(radius, 3))
        mass         == RMul(RInt(density), volume)
        velocityMs   == RMul(RInt(input.velocity), RInt(1000))
        energyJoules == RMul(RMul(Real(5, 1, -1, 0), mass), RPow(velocityMs, 2))
        energyMt     == RDiv(energyJoules, TNT_JOULES)
        logic        == ImpactLogic(input.distance)
    IN  [density        |-> density,
         radius         |-> radius,
         volume         |-> volume,
         mass           |-> mass,
         velocityMs     |-> velocityMs,
         energyJoules   |-> energyJoules,
         energyMt       |-> energyMt,
         rawImpactProb  |-> logic.impactProb,
         isHit          |-> logic.isHit,
         impactProb     |-> CleanUp(logic.impactProb),
         craterDiameter |-> CraterDiameter(density, input.diameter, velocityMs)]

----------------------------------------------------------------------------
(* services/geminiService.ts: analyzeAsteroid, steps 7 to 9 and the result *)

DimensionalStep(step, equation, explanation, result) ==
    [step |-> step, equation |-> equation, explanation |-> explanation, result |-> result]

\* variant: the velocity conversion left out when there is nothing to convert
Steps_SkipZeroVelocity(input, l) ==
    LET all ==
           << DimensionalStep("Calculate Radius",
                  [template |-> "r = d / 2 = ${input.diameter} / 2", diameter |-> input.diameter],
                  "Derive radius from diameter to determine spherical volume.",
                  Formatted("toFixed(2)", l.radius, "m")),
              DimensionalStep("Calculate Volume",
                  "V = (4/3) * pi * r^3",
                  "Compute volume of sphere.",
                  Formatted("toExponential(2)", l.volume, "m3")),
              DimensionalStep("Derive Mass",
                  "M = rho * V",
                  [template |-> "Calculate mass using ${input.type} density (${density} kg/m3).",
                   type |-> input.type, density |-> l.density],
                  Formatted("toExponential(2)", l.mass, "kg")),
              DimensionalStep("Velocity Conversion",
                  "v_ms = v_km * 1000",
                  "Convert km/s to m/s for standard Joule calculation.",
                  Formatted("toLocaleString()", l.velocityMs, "m/s")),
              DimensionalStep("Kinetic Energy",
                  "E_k = (1/2) * M * v^2",
                  "Compute kinetic energy using classical mechanics.",
                  Formatted("toExponential(2)", l.energyJoules, "J")),
              DimensionalStep("TNT Equivalent",
                  "MT = E_k / 4.184e15",
                  "Convert Joules to Megatons of TNT for impact context.",
                  Formatted("toFixed(2)", l.energyMt, "MT")) >>
    IN  IF input.velocity = 0 THEN SubSeq(all, 1, 3) \o SubSeq(all, 5, 6) ELSE all

\* 7. Generate Dimensional Process Steps
Steps(input, l) ==
    << DimensionalStep("Calculate Radius",
           [template |-> "r = d / 2 = ${input.diameter} / 2", diameter |-> input.diameter],
           "Derive radius from diameter to determine spherical volume.",
           Formatted("toFixed(2)", l.radius, "m")),
       DimensionalStep("Calculate Volume",
           "V = (4/3) * pi * r^3",
           "Compute volume of sphere.",
           Formatted("toExponential(2)", l.volume, "m3")),
       DimensionalStep("Derive Mass",
           "M = rho * V",
           [template |-> "Calculate mass using ${input.type} density (${density} kg/m3).",
            type |-> input.type, density |-> l.density],
           Formatted("toExponential(2)", l.mass, "kg")),
       DimensionalStep("Velocity Conversion",
           "v_ms = v_km * 1000",
           "Convert km/s to m/s for standard Joule calculation.",
           Formatted("toLocaleString()", l.velocityMs, "m/s")),
       DimensionalStep("Kinetic Energy",
           "E_k = (1/2) * M * v^2",
           "Compute kinetic energy using classical mechanics.",
           Formatted("toExponential(2)", l.energyJoules, "J")),
       DimensionalStep("TNT Equivalent",
           "MT = E_k / 4.184e15",
           "Convert Joules to Megatons of TNT for impact context.",
           Formatted("toFixed(2)", l.energyMt, "MT")) >>

\* variant: the last threshold a digit short
generateSummary_Thousand(name, isHit, energy, type, prob) ==
    LET energyStr == IF RLessPow10(energy, 0) THEN "Local Damage"
                     ELSE IF RLessPow10(energy, 2) THEN "Regional Destruction"
                     ELSE IF RLessPow10(energy, 3) THEN "Continental Catastrophe"
                     ELSE "Extinction Event"
        status    == IF isHit THEN "CRITICAL: IMPACT TRAJECTORY CONFIRMED."
                     ELSE "SAFE: NO INTERSECTION DETECTED."
    IN  [target         |-> toUpperCase(name),
         classification |-> type,
         probability    |-> prob,
         status         |-> status,
         kineticYield   |-> Formatted("toLocaleString(maximumFractionDigits: 2)", energy, "Megatons"),
         threatLevel    |-> toUpperCase(energyStr)]

generateSummary(name, isHit, energy, type, prob) ==
    LET energyStr == IF RLessPow10(energy, 0) THEN "Local Damage"
                     ELSE IF RLessPow10(energy, 2) THEN "Regional Destruction"
                     ELSE IF RLessPow10(energy, 4) THEN "Continental Catastrophe"
                     ELSE "Extinction Event"
        status    == IF isHit THEN "CRITICAL: IMPACT TRAJECTORY CONFIRMED."
                     ELSE "SAFE: NO INTERSECTION DETECTED."
    IN  [target         |-> toUpperCase(name),
         classification |-> type,
         probability    |-> prob,
         status         |-> status,
         kineticYield   |-> Formatted("toLocaleString(maximumFractionDigits: 2)", energy, "Megatons"),
         threatLevel    |-> toUpperCase(energyStr)]

\* variant: no composition for a body of no size
Result_SizedComposition(input, l, time) ==
    [isHit                 |-> l.isHit,
     impactProbability     |-> l.impactProb,
     kineticEnergyMegatons |-> l.energyMt,
     craterSizeMeters      |-> l.craterDiameter,
     analysisSummary       |-> generateSummary(input.name, l.isHit, l.energyMt,
                                               input.type, l.impactProb),
     dimensionalProcess    |-> Steps(input, l),
     composition           |-> IF input.diameter = 0 THEN << >>
                               ELSE getComposition(input.type),
     rawMarkdown           |-> "Generated via Local Physics Engine.",
     timestamp             |-> time]

\* variant: the time of the analysis written into the markdown as well
Result_StampedMarkdown(input, l, time) ==
    [isHit                 |-> l.isHit,
     impactProbability     |-> l.impactProb,
     kineticEnergyMegatons |-> l.energyMt,
     craterSizeMeters      |-> l.craterDiameter,
     analysisSummary       |-> generateSummary(input.name, l.isHit, l.energyMt,
                                               input.type, l.impactProb),
     dimensionalProcess    |-> Steps(input, l),
     composition           |-> getComposition(input.type),
     rawMarkdown           |-> [template |-> "Generated via Local Physics Engine at ${time}.",
                                time |-> time],
     timestamp             |-> time]

\* the record analyzeAsteroid returns; time is what Date.now() answers
Result(input, l, time) ==
    [isHit                 |-> l.isHit,
     impactProbability     |-> l.impactProb,
     kineticEnergyMegatons |-> l.energyMt,
     craterSizeMeters      |-> l.craterDiameter,
     analysisSummary       |-> generateSummary(input.name, l.isHit, l.energyMt,
                                               input.type, l.impactProb),
     dimensionalProcess    |-> Steps(input, l),
     composition           |-> getComposition(input.type),
     rawMarkdown           |-> "Generated via Local Physics Engine.",
     timestamp             |-> time]

----------------------------------------------------------------------------
(* The inputs *)

Names == {"Neo-X1", "apophis"}

Diameters == {0, 50}

Velocities == {0, 17}

Types == AsteroidType \cup {UNRECOGNIZED}

\* the largest distance of a hit inside the decay band (probability above 60)
HitEdge == closeLimit + (2 * (outerLimit - closeLimit)) \div 5

Window(centre) == (centre - BoundaryWindow) .. (centre + BoundaryWindow)

Distances ==
    Window(0) \cup Window(closeLimit) \cup Window(HitEdge) \cup Window(outerLimit)
        \cup {k * GridStep : k \in 0 .. MaxGrid} \cup {384400}

AsteroidInput(N, D, V, K, T) ==
    [name : N, diameter : D, velocity : V, distance : K, type : T]

EngineInputs == AsteroidInput(Names, Diameters, Velocities, Distances, Types)

----------------------------------------------------------------------------
(* Invocations of analyzeAsteroid *)

\* the invocations: each is made once
Calls == {"a", "b"}

Idle == [status |-> "idle"]

\* analyzeAsteroid(input), for an input among Inputs: the call starts its
\* 800 ms timer and is pending
Invoke(c, Inputs) ==
    /\ calls[c].status = "idle"
    /\ \E input \in Inputs :
           calls' = [calls EXCEPT ![c] = [status |-> "pending", input |-> input]]
    /\ UNCHANGED <<now, env, appVars>>

\* variant: a miss is thrown instead of returned
Return_ThrowsOnMiss(c) ==
    /\ calls[c].status = "pending"
    /\ \E input \in {calls[c].input} : \E l \in {Locals(input)} :
           calls' = [calls EXCEPT ![c] =
                        IF l.isHit
                        THEN [status |-> "resolved", input |-> input,
                              locals |-> l, result |-> Result(input, l, now)]
                        ELSE [status |-> "rejected", input |-> input,
                              error |-> "NoIntersection"]]
    /\ UNCHANGED <<now, env, appVars>>

\* the timer fires: the body runs to its return and the promise resolves
Return(c) ==
    /\ calls[c].status = "pending"
    /\ \E input \in {calls[c].input} : \E l \in {Locals(input)} :
           calls' = [calls EXCEPT ![c] = [status |-> "resolved", input |-> input,
                                          locals |-> l, result |-> Result(input, l, now)]]
    /\ UNCHANGED <<now, env, appVars>>

\* time passes
Tick ==
    /\ now < MaxClock
    /\ now' = now + 1
    /\ UNCHANGED <<calls, env, appVars>>

\* constants.ts
DEFAULT_INPUT ==
    [name |-> "Neo-X1", diameter |-> 50, velocity |-> 17, distance |-> 384400,
     type |-> STONY]

\* no result on display
Null == [kind |-> "null"]

\* App: the initial values of the state hooks
AppInit ==
    /\ appInput = DEFAULT_INPUT
    /\ loading = FALSE
    /\ appResult = Null
    /\ history = << >>
    /\ isSidebarOpen = FALSE

Init ==
    /\ calls = [c \in Calls |-> Idle]
    /\ now = 0
    /\ env = [API_KEY |-> "key"]
    /\ AppInit

\* one invocation, of every input
EngineNext ==
    \/ Invoke("a", EngineInputs)
    \/ Return("a")
    \/ Tick

EngineSpec == Init /\ [][EngineNext]_vars

\* two invocations in flight together
PairInputs ==
    AsteroidInput(Names, Diameters, Velocities, {8000, 384400},
                  {STONY, METALLIC, UNRECOGNIZED})

PairNext ==
    \/ Invoke("a", PairInputs)
    \/ Invoke("b", PairInputs)
    \/ Return("a")
    \/ Return("b")
    \/ Tick

PairSpec == Init /\ [][PairNext]_vars

\* the physics: sizes and speeds that reach every severity tier, the degenerate
\* and the negative ones among them
PhysicsInputs ==
    AsteroidInput({"Neo-X1"}, {-50, 0, 10, 50, 100, 300, 1000}, {-17, 0, 1, 17, 34},
                  {8000, HitEdge, 384400}, Types)

\* energies in megatons, as fractions num / den, on and around the thresholds
\* of generateSummary
EnergyGrid ==
    [num : {-1, 0, 1, 2, 3, 99, 100, 101, 199, 200, 201, 9999, 10000, 10001,
            19999, 20000, 20001},
     den : {1, 2}]

\* generateSummary(name, isHit, energy, type, prob), applied on its own
Summarize(c) ==
    /\ calls[c].status = "idle"
    /\ \E e \in EnergyGrid, isHit \in BOOLEAN, name \in Names,
          type \in {STONY, ICY}, prob \in {Frac(0, 1), Frac(100, 1)} :
           calls' = [calls EXCEPT ![c] =
                        [status  |-> "summarized",
                         energy  |-> e,
                         isHit   |-> isHit,
                         summary |-> generateSummary(name, isHit,
                                                     Real(e.num, e.den, 0, 0),
                                                     type, prob)]]
    /\ UNCHANGED <<now, env, appVars>>

PhysicsNext ==
    \/ Invoke("a", PhysicsInputs)
    \/ Return("a")
    \/ Summarize("a")
    \/ Tick

PhysicsSpec == Init /\ [][PhysicsNext]_vars

\* one invocation under the scheduling of the event loop: a timer that was set
\* fires, and the callback of a fired timer runs
LiveInputs ==
    AsteroidInput({"Neo-X1"}, {0, 50, 300}, {0, 1}, {8000, HitEdge, 384400},
                  {STONY, UNRECOGNIZED})

LiveNext ==
    \/ Invoke("a", LiveInputs)
    \/ Return("a")
    \/ Tick

LiveSpec == Init /\ [][LiveNext]_vars /\ WF_vars(Return("a"))

----------------------------------------------------------------------------
(* The remote analyzeAsteroid (the Gemini variant of geminiService.ts) *)

\* ANALYSIS_SCHEMA.required
REQUIRED ==
    {"isHit", "impactProbability", "kineticEnergyMegatons", "dimensionalProcess",
     "composition", "rawMarkdown"}

\* response bodies: none, prose, an object short of required keys, a full object
EmptyText == ""

ProseText == "I am unable to assess this asteroid."

PartialText == "{\"isHit\":true,\"rawMarkdown\":\"# Impact\"}"

CompleteText ==
    "{\"isHit\":true,\"impactProbability\":95,\"kineticEnergyMegatons\":6,\"craterSizeMeters\":900,\"analysisSummary\":\"Impact.\",\"dimensionalProcess\":[],\"composition\":[],\"rawMarkdown\":\"# Impact\"}"

\* JSON.parse, on the bodies above: the value, or the SyntaxError thrown
JSONparse(text) ==
    CASE text = PartialText ->
            [ok |-> TRUE, value |-> [isHit |-> TRUE, rawMarkdown |-> "# Impact"]]
      [] text = CompleteText ->
            [ok |-> TRUE,
             value |-> [isHit |-> TRUE, impactProbability |-> 95,
                        kineticEnergyMegatons |-> 6, craterSizeMeters |-> 900,
                        analysisSummary |-> "Impact.", dimensionalProcess |-> << >>,
                        composition |-> << >>, rawMarkdown |-> "# Impact"]]
      [] OTHER -> [ok |-> FALSE, error |-> "SyntaxError: Unexpected token"]

\* what ai.models.generateContent settles with: a rejection (the request
\* failed) or a response with a body
Responses ==
    [kind : {"rejected"}, error : {"NetworkError", "TimeoutError"}]
        \cup [kind : {"fulfilled"},
              text : {EmptyText, ProseText, PartialText, CompleteText}]

\* { ...data, timestamp: Date.now() }
WithTimestamp(data, time) ==
    [f \in DOMAIN data \cup {"timestamp"} |->
        IF f = "timestamp" THEN time ELSE data[f]]

\* variant: a failed request answered with an empty analysis
RemoteOutcome_FallsBack(response, time) ==
    IF response.kind = "rejected"
    THEN [status |-> "resolved",
          result |-> WithTimestamp([isHit |-> FALSE, rawMarkdown |-> "Offline."], time)]
    ELSE IF response.text = ""
    THEN [status |-> "rejected", error |-> "Error: No response from Gemini"]
    ELSE LET parsed == JSONparse(response.text)
         IN  IF ~parsed.ok
             THEN [status |-> "rejected", error |-> parsed.error]
             ELSE [status |-> "resolved", result |-> WithTimestamp(parsed.value, time)]

\* the try block after the await, and the catch that rethrows: how the promise
\* of analyzeAsteroid settles on a response
RemoteOutcome(response, time) ==
    IF response.kind = "rejected"
    THEN [status |-> "rejected", error |-> response.error]
    ELSE IF response.text = ""
    THEN [status |-> "rejected", error |-> "Error: No response from Gemini"]
    ELSE LET parsed == JSONparse(response.text)
         IN  IF ~parsed.ok
             THEN [status |-> "rejected", error |-> parsed.error]
             ELSE [status |-> "resolved", result |-> WithTimestamp(parsed.value, time)]

\* the call record of a settled remote invocation
Settled(call, response, outcome) ==
    IF outcome.status = "resolved"
    THEN [status |-> "resolved", input |-> call.input, requests |-> call.requests,
          response |-> response, result |-> outcome.result]
    ELSE [status |-> "rejected", input |-> call.input, requests |-> call.requests,
          response |-> response, error |-> outcome.error]

ApiKeys == {"", "key"}

\* analyzeAsteroid(input, apiKey): without a key it throws at once; with one it
\* sends its one generateContent request and awaits the response
RemoteInvoke(c, Inputs) ==
    /\ calls[c].status = "idle"
    /\ \E input \in Inputs, apiKey \in ApiKeys :
           calls' = [calls EXCEPT ![c] =
                        IF apiKey = ""
                        THEN [status |-> "rejected", input |-> input, requests |-> 0,
                              error |-> "Error: API Key is required"]
                        ELSE [status |-> "pending", input |-> input, requests |-> 1]]
    /\ UNCHANGED <<now, env, appVars>>

\* generateContent settles, and with it analyzeAsteroid
RemoteSettle(c) ==
    /\ calls[c].status = "pending"
    /\ \E response \in Responses :
           calls' = [calls EXCEPT ![c] =
                        Settled(calls[c], response, RemoteOutcome(response, now))]
    /\ UNCHANGED <<now, env, appVars>>

RemoteInputs ==
    AsteroidInput(Names, {50}, {17}, {8000, 384400}, {STONY, METALLIC})

RemoteNext ==
    \/ RemoteInvoke("a", RemoteInputs)
    \/ RemoteSettle("a")
    \/ Tick

RemoteSpec == Init /\ [][RemoteNext]_vars

----------------------------------------------------------------------------
(* App.tsx: the component that consumes analyzeAsteroid.  There are two      *)
(* builds of it: one bundles the local engine, one the remote engine and     *)
(* needs process.env.API_KEY.                                                *)

\* the builds: the engine bundled and the key in the environment
Builds ==
    { [ENGINE |-> "local", API_KEY |-> ""],
      [ENGINE |-> "remote", API_KEY |-> ""],
      [ENGINE |-> "remote", API_KEY |-> "key"] }

\* parseFloat(value), on the values the form's number fields hand over
parseFloat(value) ==
    CASE value = "8000"   -> 8000
      [] value = "384400" -> 384400
      [] OTHER            -> NaN

\* the change events of the model: the field's name and its new value
ChangeEvents ==
    { <<"distance", "8000">>, <<"distance", "384400">>, <<"distance", "">>,
      <<"type", METALLIC>> }

\* Number.isNaN(x), for a number field of the form (an integer or NaN)
IsNaN(x) == ToString(x) = ToString(NaN)

\* the form's constraint validation (required, min), which runs before
\* onSubmit: a number field holding NaN shows as empty
FormValid(i) ==
    /\ i.name # ""
    /\ ~IsNaN(i.diameter) /\ i.diameter >= 1
    /\ ~IsNaN(i.velocity) /\ i.velocity >= 1
    /\ ~IsNaN(i.distance) /\ i.distance >= 0

handleInputChange(name, value) ==
    /\ appInput' = [appInput EXCEPT ![name] =
                        IF name \in {"diameter", "velocity", "distance"}
                        THEN parseFloat(value)
                        ELSE value]
    /\ UNCHANGED <<calls, now, env, loading, appResult, history, isSidebarOpen>>

\* the call slot of the next analysis
FreeSlot == IF calls["a"].status # "pending" THEN "a" ELSE "b"

\* variant: the submit button is not disabled while loading
handleSubmit_WhileLoading ==
    /\ FormValid(appInput)
    /\ calls[FreeSlot].status # "pending"
    /\ Len(history) < MaxHistory
    /\ IF env.ENGINE = "remote" /\ env.API_KEY = ""
       THEN UNCHANGED <<calls, loading, appResult>>
       ELSE /\ loading' = TRUE
            /\ appResult' = Null
            /\ calls' = [calls EXCEPT ![FreeSlot] =
                            IF env.ENGINE = "local"
                            THEN [status |-> "pending", input |-> appInput]
                            ELSE [status |-> "pending", input |-> appInput,
                                  requests |-> 1]]
    /\ UNCHANGED <<now, env, appInput, history, isSidebarOpen>>

\* the submit button, enabled while loading is false, and handleSubmit up to
\* its await: analyzeAsteroid(input) is called with the input of this render
handleSubmit ==
    /\ ~loading
    /\ FormValid(appInput)
    /\ calls[FreeSlot].status # "pending"
    /\ Len(history) < MaxHistory
    /\ IF env.ENGINE = "remote" /\ env.API_KEY = ""
       THEN UNCHANGED <<calls, loading, appResult>>
       ELSE /\ loading' = TRUE
            /\ appResult' = Null
            /\ calls' = [calls EXCEPT ![FreeSlot] =
                            IF env.ENGINE = "local"
                            THEN [status |-> "pending", input |-> appInput]
                            ELSE [status |-> "pending", input |-> appInput,
                                  requests |-> 1]]
    /\ UNCHANGED <<now, env, appInput, history, isSidebarOpen>>

\* Date.now().toString()
HistoryId(time) == ToString(time)

\* variant: the new item put last
newHistory_Appended(item, prev) == prev \o << item >>

\* setHistory(prev => [newHistoryItem, ...prev])
newHistory(item, prev) == << item >> \o prev

\* variant: the result is shown and no record of it is kept
handleSubmitLocal_NoRecord(c) ==
    /\ env.ENGINE = "local"
    /\ calls[c].status = "pending"
    /\ \E i \in {calls[c].input} : \E l \in {Locals(i)} :
       \E data \in {Result(i, l, now)} :
           /\ calls' = [calls EXCEPT ![c] = [status |-> "resolved", input |-> i,
                                              locals |-> l, result |-> data]]
           /\ appResult' = data
    /\ loading' = FALSE
    /\ UNCHANGED <<now, env, appInput, history, isSidebarOpen>>

\* variant: the record takes the input of the form as it is when the analysis
\* returns
handleSubmitLocal_StoresFormInput(c) ==
    /\ env.ENGINE = "local"
    /\ calls[c].status = "pending"
    /\ \E i \in {calls[c].input} : \E l \in {Locals(i)} :
       \E data \in {Result(i, l, now)} :
           /\ calls' = [calls EXCEPT ![c] = [status |-> "resolved", input |-> i,
                                              locals |-> l, result |-> data]]
           /\ appResult' = data
           /\ history' = newHistory([id |-> HistoryId(now), input |-> appInput,
                                      result |-> data], history)
    /\ loading' = FALSE
    /\ UNCHANGED <<now, env, appInput, isSidebarOpen>>

\* variant: the local build never calls setLoading(false)
handleSubmitLocal_KeepsLoading(c) ==
    /\ env.ENGINE = "local"
    /\ calls[c].status = "pending"
    /\ \E i \in {calls[c].input} : \E l \in {Locals(i)} :
       \E data \in {Result(i, l, now)} :
           /\ calls' = [calls EXCEPT ![c] = [status |-> "resolved", input |-> i,
                                              locals |-> l, result |-> data]]
           /\ appResult' = data
           /\ history' = newHistory([id |-> HistoryId(now), input |-> i,
                                      result |-> data], history)
    /\ UNCHANGED <<now, env, appInput, loading, isSidebarOpen>>

\* handleSubmit after its await, local engine: the timer fires, analyzeAsteroid
\* returns, and the try block and the finally block run
handleSubmitLocal(c) ==
    /\ env.ENGINE = "local"
    /\ calls[c].status = "pending"
    /\ \E i \in {calls[c].input} : \E l \in {Locals(i)} :
       \E data \in {Result(i, l, now)} :
           /\ calls' = [calls EXCEPT ![c] = [status |-> "resolved", input |-> i,
                                              locals |-> l, result |-> data]]
           /\ appResult' = data
           /\ history' = newHistory([id |-> HistoryId(now), input |-> i,
                                      result |-> data], history)
    /\ loading' = FALSE
    /\ UNCHANGED <<now, env, appInput, isSidebarOpen>>

\* variant: setLoading(false) at the end of the try block, not in a finally
handleSubmitRemote_NoFinally(c) ==
    /\ env.ENGINE = "remote"
    /\ calls[c].status = "pending"
    /\ \E response \in Responses : \E outcome \in {RemoteOutcome(response, now)} :
           /\ calls' = [calls EXCEPT ![c] = Settled(calls[c], response, outcome)]
           /\ IF outcome.status = "resolved"
              THEN /\ appResult' = outcome.result
                   /\ history' = newHistory([id |-> HistoryId(now),
                                              input |-> calls[c].input,
                                              result |-> outcome.result], history)
                   /\ loading' = FALSE
              ELSE UNCHANGED <<appResult, history, loading>>
    /\ UNCHANGED <<now, env, appInput, isSidebarOpen>>

\* handleSubmit after its await, remote engine: generateContent settles,
\* analyzeAsteroid settles, and the try or the catch block and the finally
\* block run
handleSubmitRemote(c) ==
    /\ env.ENGINE = "remote"
    /\ calls[c].status = "pending"
    /\ \E response \in Responses : \E outcome \in {RemoteOutcome(response, now)} :
           /\ calls' = [calls EXCEPT ![c] = Settled(calls[c], response, outcome)]
           /\ IF outcome.status = "resolved"
              THEN /\ appResult' = outcome.result
                   /\ history' = newHistory([id |-> HistoryId(now),
                                              input |-> calls[c].input,
                                              result |-> outcome.result], history)
              ELSE UNCHANGED <<appResult, history>>
    /\ loading' = FALSE
    /\ UNCHANGED <<now, env, appInput, isSidebarOpen>>

\* a click on the k-th item of the history
loadHistoryItem(k) ==
    /\ k \in 1 .. Len(history)
    /\ appInput' = history[k].input
    /\ appResult' = history[k].result
    /\ isSidebarOpen' = FALSE
    /\ UNCHANGED <<calls, now, env, loading, history>>

\* the buttons that open and close the history drawer
setIsSidebarOpen(open) ==
    /\ isSidebarOpen' = open
    /\ UNCHANGED <<calls, now, env, appInput, loading, appResult, history>>

AppStart ==
    /\ calls = [c \in Calls |-> Idle]
    /\ now = 0
    /\ env \in Builds
    /\ AppInit

AppNext ==
    \/ \E e \in ChangeEvents : handleInputChange(e[1], e[2])
    \/ handleSubmit
    \/ \E c \in Calls : handleSubmitLocal(c)
    \/ \E c \in Calls : handleSubmitRemote(c)
    \/ \E k \in 1 .. MaxHistory : loadHistoryItem(k)
    \/ \E open \in BOOLEAN : setIsSidebarOpen(open)
    \/ Tick

AppSpec == AppStart /\ [][AppNext]_vars

\* the change events of the App with an engine that settles
LiveChangeEvents == { e \in ChangeEvents : e[2] = "8000" }

AppLiveNext ==
    \/ \E e \in LiveChangeEvents : handleInputChange(e[1], e[2])
    \/ handleSubmit
    \/ \E c \in Calls : handleSubmitLocal(c)
    \/ \E c \in Calls : handleSubmitRemote(c)
    \/ \E k \in 1 .. MaxHistory : loadHistoryItem(k)

\* the App with an engine that settles: the timer of the local engine fires,
\* the request of the remote engine is answered or fails
AppLiveSpec ==
    /\ AppStart
    /\ [][AppLiveNext]_vars
    /\ WF_vars(\E c \in Calls : handleSubmitLocal(c))
    /\ WF_vars(\E c \in Calls : handleSubmitRemote(c))

----------------------------------------------------------------------------
(* Properties *)

Resolved(c) == calls[c].status = "resolved"

TypeOK ==
    /\ now \in 0 .. MaxClock
    /\ \A c \in Calls :
           calls[c].status \in {"idle", "pending", "resolved", "rejected", "summarized"}

RECURSIVE SumPercentages(_)
SumPercentages(composition) ==
    IF composition = << >> THEN 0
    ELSE Head(composition).percentage + SumPercentages(Tail(composition))

\* the impactProbability analyzeAsteroid returns for a distance
ReturnedProbability(distance) == CleanUp(ImpactLogic(distance).impactProb)

\* the same, tabulated over the distances of the model
ProbabilityAt == [d \in Distances |-> ReturnedProbability(d)]

\* C1: every resolved invocation whose distance is below 8371 km returned
\* impactProbability = 100 and isHit = true, whatever its other fields
C1_CloseIsCertainHit ==
    \A c \in Calls :
        (Resolved(c) /\ calls[c].input.distance < 8371) =>
            /\ calls[c].result.impactProbability = Frac(100, 1)
            /\ calls[c].result.isHit = TRUE

C1_Witness ==
    /\ Resolved("a")
    /\ calls["a"].input.distance = 8370
    /\ calls["a"].input.type = METALLIC
    /\ calls["a"].input.diameter = 0
    /\ calls["a"].result.isHit

\* C2: every resolved invocation whose distance is 50000 km or more (384400
\* among them) returned impactProbability = 0 and isHit = false
C2_FarIsMiss ==
    \A c \in Calls :
        (Resolved(c) /\ calls[c].input.distance >= 50000) =>
            /\ calls[c].result.impactProbability = Frac(0, 1)
            /\ calls[c].result.isHit = FALSE

C2_Witness ==
    /\ Resolved("a")
    /\ calls["a"].input = [name |-> "Neo-X1", diameter |-> 50, velocity |-> 17,
                           distance |-> 384400, type |-> STONY]
    /\ ~calls["a"].result.isHit

\* C3: for 8371 <= distance < 50000 the probability computed is the linear
\* interpolation 100 * (1 - (distance - 8371) / (50000 - 8371)), the returned
\* impactProbability lies within 0.05 of it, and isHit is true exactly when the
\* interpolated probability is greater than 60
C3_LinearDecay ==
    \A c \in Calls :
        (Resolved(c) /\ 8371 <= calls[c].input.distance /\ calls[c].input.distance < 50000) =>
            LET d == calls[c].input.distance
                r == calls[c].result.impactProbability
            IN  /\ calls[c].locals.rawImpactProb = Frac(100 * (50000 - d), 50000 - 8371)
                /\ 20 * Abs(r.num * (50000 - 8371) - 100 * (50000 - d) * r.den)
                       <= r.den * (50000 - 8371)
                /\ calls[c].result.isHit <=> (100 * (50000 - d) > 60 * (50000 - 8371))

C3_Witness ==
    /\ Resolved("a")
    /\ calls["a"].input.distance = 26000
    /\ calls["a"].result.impactProbability = Frac(577, 10)
    /\ ~calls["a"].result.isHit

\* C4: impactProbability is non-increasing in distance: the probability a
\* resolved invocation returned is at least the one returned for the same input
\* at any greater distance, and at most the one returned at any smaller distance
C4_ProbabilityNonIncreasing ==
    \A c \in Calls :
        Resolved(c) =>
            \A d2 \in Distances :
                LET p1 == calls[c].result.impactProbability
                    p2 == ProbabilityAt[d2]
                IN  /\ calls[c].input.distance <= d2 => ~FracLess(p1, p2)
                    /\ d2 <= calls[c].input.distance => ~FracLess(p2, p1)

C4_Witness ==
    /\ Resolved("a")
    /\ calls["a"].input.distance = closeLimit
    /\ FracLess(ProbabilityAt[closeLimit + BoundaryWindow],
                calls["a"].result.impactProbability)
    /\ FracLess(ProbabilityAt[outerLimit - 1], calls["a"].result.impactProbability)
    /\ ProbabilityAt[closeLimit - 1] = calls["a"].result.impactProbability

\* C5: every returned impactProbability lies in [0, 100] and is a multiple of 0.1
C5_ProbabilityClampedRounded ==
    \A c \in Calls :
        Resolved(c) =>
            LET r == calls[c].result.impactProbability
            IN  /\ r.den > 0
                /\ 0 <= r.num
                /\ r.num <= 100 * r.den
                /\ (10 * r.num) % r.den = 0

C5_Witness ==
    /\ Resolved("a")
    /\ calls["a"].input.distance = 26000
    /\ (10 * calls["a"].locals.rawImpactProb.num) % calls["a"].locals.rawImpactProb.den # 0
    /\ calls["a"].result.impactProbability = Frac(577, 10)

\* C6: no invocation with diameter <= 0, velocity <= 0 or distance < 0 produces
\* a result record
C6_InvalidInputRejected ==
    \A c \in Calls :
        Resolved(c) =>
            /\ calls[c].input.diameter > 0
            /\ calls[c].input.velocity > 0
            /\ calls[c].input.distance >= 0

C8_SixStepsInOrder ==
    \A c \in Calls :
        Resolved(c) =>
            LET steps == calls[c].result.dimensionalProcess
            IN  /\ Len(steps) = 6
                /\ [i \in 1 .. 6 |-> steps[i].step] =
                       << "Calculate Radius", "Calculate Volume", "Derive Mass",
                          "Velocity Conversion", "Kinetic Energy", "TNT Equivalent" >>

C8_Witness ==
    /\ Resolved("a")
    /\ calls["a"].input.diameter = 0
    /\ calls["a"].input.velocity = 0
    /\ calls["a"].input.type = UNRECOGNIZED
    /\ Len(calls["a"].result.dimensionalProcess) = 6

\* C9: for each of the four asteroid types the returned composition has
\* percentages that sum to 100, in three entries for Metallic and four for
\* Stony, Icy and Carbonaceous
C9_CompositionSumsTo100 ==
    \A c \in Calls :
        (Resolved(c) /\ calls[c].input.type \in AsteroidType) =>
            LET composition == calls[c].result.composition
            IN  /\ SumPercentages(composition) = 100
                /\ Len(composition) = IF calls[c].input.type = METALLIC THEN 3 ELSE 4

C9_Witness ==
    /\ Resolved("a")
    /\ calls["a"].input.type = METALLIC
    /\ Len(calls["a"].result.composition) = 3
    /\ SumPercentages(calls["a"].result.composition) = 100

\* C10: two invocations with the same type return the same composition list,
\* whatever their name, diameter, velocity and distance
C10_CompositionByTypeOnly ==
    (Resolved("a") /\ Resolved("b") /\ calls["a"].input.type = calls["b"].input.type) =>
        calls["a"].result.composition = calls["b"].result.composition

C10_Witness ==
    /\ Resolved("a")
    /\ Resolved("b")
    /\ calls["a"].input.type = STONY
    /\ calls["b"].input.type = STONY
    /\ calls["a"].input.name # calls["b"].input.name
    /\ calls["a"].input.diameter # calls["b"].input.diameter
    /\ calls["a"].input.velocity # calls["b"].input.velocity
    /\ calls["a"].input.distance # calls["b"].input.distance
    /\ calls["a"].result.isHit # calls["b"].result.isHit
    /\ Len(calls["a"].result.composition) = 4

----------------------------------------------------------------------------
(* The severity tier and the physics *)

Summarized(c) == calls[c].status = "summarized"

\* the tier of an energy of num / den megatons (den > 0), by the thresholds
\* 1, 100 and 10000
ThreatLevelFor(num, den) ==
    IF num < den THEN "LOCAL DAMAGE"
    ELSE IF num < 100 * den THEN "REGIONAL DESTRUCTION"
    ELSE IF num < 10000 * den THEN "CONTINENTAL CATASTROPHE"
    ELSE "EXTINCTION EVENT"

ImpactLine == "CRITICAL: IMPACT TRAJECTORY CONFIRMED."

\* C11: the severity tier of a summary is the one the energy alone selects, with
\* exclusive upper bounds (below 1 local, from 1 below 100 regional, from 100
\* below 10000 continental, from 10000 extinction), whatever the name, type,
\* probability and isHit; the status line is the impact line exactly when isHit
\* is true; analyzeAsteroid summarises its own kineticEnergyMegatons and isHit
C11_TierByEnergyAlone ==
    \A c \in Calls :
        /\ Summarized(c) =>
              /\ calls[c].summary.threatLevel =
                     ThreatLevelFor(calls[c].energy.num, calls[c].energy.den)
              /\ (calls[c].summary.status = ImpactLine) <=> calls[c].isHit
        /\ Resolved(c) =>
              LET r == calls[c].result
                  e == r.kineticEnergyMegatons
                  t == r.analysisSummary.threatLevel
              IN  /\ r.analysisSummary.kineticYield.value = e
                  /\ (r.analysisSummary.status = ImpactLine) <=> r.isHit
                  /\ t \in {"LOCAL DAMAGE", "REGIONAL DESTRUCTION",
                            "CONTINENTAL CATASTROPHE", "EXTINCTION EVENT"}
                  /\ (t = "LOCAL DAMAGE") <=> RLessPow10(e, 0)
                  /\ (t = "REGIONAL DESTRUCTION") <=>
                         (~RLessPow10(e, 0) /\ RLessPow10(e, 2))
                  /\ (t = "CONTINENTAL CATASTROPHE") <=>
                         (~RLessPow10(e, 2) /\ RLessPow10(e, 4))
                  /\ (t = "EXTINCTION EVENT") <=> ~RLessPow10(e, 4)

\* an energy of exactly 100 megatons, summarised for a miss
C11_Witness ==
    /\ Summarized("a")
    /\ calls["a"].energy = [num |-> 200, den |-> 2]
    /\ ~calls["a"].isHit
    /\ calls["a"].summary.threatLevel = "CONTINENTAL CATASTROPHE"
    /\ calls["a"].summary.status = "SAFE: NO INTERSECTION DETECTED."

\* the mass of a sphere of the diameter and of the density of the type, in kg
SphereMass(type, diameter) ==
    RMul(RInt(DENSITY_MAP[type]),
         RMul(RMul(Real(4, 3, 0, 0), PI), RPow(Real(diameter, 2, 0, 0), 3)))

\* C12: for a positive diameter and velocity and a type of the enum, the
\* returned kineticEnergyMegatons is 0.5 * mass * (velocity * 1000)^2 / 4.184e15
\* with mass = density(type) * (4/3) * pi * (diameter / 2)^3: the velocity is
\* converted to m/s before it is squared, so the energy is 1,000,000 *
\* velocity^2 times the energy per unit of squared speed, and the same input
\* at twice the velocity has four times the energy
C12_KineticEnergy ==
    \A c \in Calls :
        (/\ Resolved(c)
         /\ calls[c].input.diameter > 0
         /\ calls[c].input.velocity > 0
         /\ calls[c].input.type \in AsteroidType) =>
            LET i       == calls[c].input
                e       == calls[c].result.kineticEnergyMegatons
                mass    == SphereMass(i.type, i.diameter)
                perUnit == RDiv(RMul(Real(1, 2, 0, 0), mass), Real(4184, 1, 12, 0))
            IN  /\ e = RDiv(RMul(RMul(Real(1, 2, 0, 0), mass),
                                 RPow(RInt(i.velocity * 1000), 2)),
                            Real(4184, 1, 12, 0))
                /\ e = RMul(RInt(1000000 * i.velocity * i.velocity), perUnit)
                /\ Locals([i EXCEPT !.velocity = 2 * i.velocity]).energyMt =
                       RMul(RInt(4), e)

\* the default body at twice its speed: 34 km/s
C12_Witness ==
    /\ Resolved("a")
    /\ calls["a"].input.diameter = 50
    /\ calls["a"].input.velocity = 34
    /\ calls["a"].input.type = STONY
    /\ calls["a"].result.kineticEnergyMegatons =
           RMul(RInt(4), Locals(DEFAULT_INPUT).energyMt)
    /\ ~RLessPow10(calls["a"].result.kineticEnergyMegatons, 1)

\* volume, mass, energy and crater size of a resolved invocation are all zero
AllZero(c) ==
    /\ calls[c].locals.volume = RZero
    /\ calls[c].locals.mass = RZero
    /\ calls[c].result.dimensionalProcess[2].result.value = RZero
    /\ calls[c].result.dimensionalProcess[3].result.value = RZero
    /\ calls[c].result.kineticEnergyMegatons = RZero
    /\ calls[c].result.craterSizeMeters = Sym(RZero, << >>)

----------------------------------------------------------------------------
(* Termination and determinism of the local engine *)

Pending(c) == calls[c].status = "pending"

Rejected(c) == calls[c].status = "rejected"

\* a result record: every field of AnalysisResult
IsResultRecord(r) ==
    DOMAIN r = {"isHit", "impactProbability", "kineticEnergyMegatons",
                "craterSizeMeters", "analysisSummary", "dimensionalProcess",
                "composition", "rawMarkdown", "timestamp"}

\* C14: every invocation of the local analyzeAsteroid with a positive diameter
\* and velocity and a distance that is not negative eventually completes, after
\* its pacing delay, with a result record, and no invocation ever rejects
C14_Terminates ==
    /\ \A c \in Calls :
           (/\ Pending(c)
            /\ calls[c].input.diameter > 0
            /\ calls[c].input.velocity > 0
            /\ calls[c].input.distance >= 0)
              ~> (Resolved(c) /\ IsResultRecord(calls[c].result))
    /\ [](\A c \in Calls : ~Rejected(c))

\* a miss of a valid input has completed
C14_Witness ==
    /\ Resolved("a")
    /\ calls["a"].input.diameter = 300
    /\ calls["a"].input.velocity = 1
    /\ calls["a"].input.distance = 384400
    /\ IsResultRecord(calls["a"].result)
    /\ ~calls["a"].result.isHit

\* the fields of a result other than its timestamp
Untimed(r) ==
    [f \in {"isHit", "impactProbability", "kineticEnergyMegatons", "craterSizeMeters",
            "analysisSummary", "dimensionalProcess", "composition", "rawMarkdown"}
        |-> r[f]]

\* C15: two invocations of the local analyzeAsteroid with equal inputs, resolved
\* in any order and however they interleave, agree on every field of their
\* results but the timestamp (isHit, impactProbability, kineticEnergyMegatons,
\* craterSizeMeters, analysisSummary, dimensionalProcess, composition,
\* rawMarkdown)
C15_Deterministic ==
    \A c, d \in Calls :
        (Resolved(c) /\ Resolved(d) /\ calls[c].input = calls[d].input) =>
            /\ DOMAIN calls[c].result = DOMAIN calls[d].result
            /\ Untimed(calls[c].result) = Untimed(calls[d].result)

\* the same input analysed twice, the second analysis a clock tick later
C15_Witness ==
    /\ Resolved("a")
    /\ Resolved("b")
    /\ calls["a"].input = calls["b"].input
    /\ calls["a"].input.distance = 8000
    /\ calls["a"].input.diameter = 50
    /\ calls["a"].result.timestamp = 1
    /\ calls["b"].result.timestamp = 0

----------------------------------------------------------------------------
(* The App: history *)

\* the step is the success of the analysis c: its promise resolves and
\* handleSubmit resumes
Succeeds(c) == Pending(c) /\ calls'[c].status = "resolved"

\* the step is the failure of the analysis c: its promise rejects and
\* handleSubmit resumes in its catch block
Fails(c) == Pending(c) /\ calls'[c].status = "rejected"

\* C16: the history is append-only and most-recent-first.  A successful
\* analysis prepends exactly one record {id, input, result}, of the input
\* analysed and the result returned, and leaves the earlier records as they were,
\* in their order; every other step (an input edit, the load of a history item,
\* a failed analysis, a submit) leaves the history as it is
C16_HistoryPrependOnly ==
    [][ /\ \A c \in Calls :
              Succeeds(c) =>
                  /\ Len(history') = Len(history) + 1
                  /\ Tail(history') = history
                  /\ DOMAIN Head(history') = {"id", "input", "result"}
                  /\ Head(history').input = calls[c].input
                  /\ Head(history').result = calls'[c].result
        /\ (\A c \in Calls : ~Succeeds(c)) => history' = history ]_vars

\* two analyses by the local engine, a hit after a miss, and the older one
\* loaded again from the history
C16_Witness ==
    /\ env.ENGINE = "local"
    /\ Len(history) = 2
    /\ history[1].input.distance = 8000
    /\ history[1].result.isHit
    /\ history[2].input.distance = 384400
    /\ ~history[2].result.isHit
    /\ appResult = history[2].result
    /\ appInput = history[2].input

----------------------------------------------------------------------------
(* The remote engine *)

\* a remote invocation that has settled on a response
Answered(c) == "response" \in DOMAIN calls[c]

\* the body of a response cannot be parsed as JSON
Unparsable(response) ==
    response.kind = "fulfilled" /\ response.text # "" /\ ~JSONparse(response.text).ok

\* the body of a response is a JSON object short of a required key
MissingKeys(response) ==
    /\ response.kind = "fulfilled"
    /\ response.text # ""
    /\ JSONparse(response.text).ok
    /\ ~(REQUIRED \subseteq DOMAIN JSONparse(response.text).value)

\* C17 as stated: a response with an empty body, with a body that is not JSON
\* or with a JSON object missing a required key (isHit, impactProbability,
\* kineticEnergyMegatons, dimensionalProcess, composition, rawMarkdown) makes the
\* remote analyzeAsteroid reject: no result is returned in any of the three cases
C17_MalformedResponseRejected ==
    \A c \in Calls :
        (/\ Answered(c)
         /\ \/ calls[c].response.kind = "fulfilled" /\ calls[c].response.text = ""
            \/ Unparsable(calls[c].response)
            \/ MissingKeys(calls[c].response)) =>
            /\ Rejected(c)
            /\ "result" \notin DOMAIN calls[c]

\* C18: when the request fails (network failure, timeout) or the body cannot be
\* parsed, the remote analyzeAsteroid rejects with that same error (the one
\* generateContent rejected with, the one JSON.parse threw) after exactly one
\* request: it has not retried and it returns no result in place of the error
C18_FailureSurfacesAfterOneRequest ==
    \A c \in Calls :
        /\ (Answered(c) /\ calls[c].response.kind = "rejected") =>
              /\ Rejected(c)
              /\ calls[c].error = calls[c].response.error
              /\ "result" \notin DOMAIN calls[c]
        /\ (Answered(c) /\ Unparsable(calls[c].response)) =>
              /\ Rejected(c)
              /\ calls[c].error = JSONparse(calls[c].response.text).error
              /\ "result" \notin DOMAIN calls[c]
        /\ Answered(c) => calls[c].requests = 1
        /\ (Pending(c) /\ "requests" \in DOMAIN calls[c]) => calls[c].requests = 1

\* a request that timed out
C18_Witness ==
    /\ Answered("a")
    /\ calls["a"].response = [kind |-> "rejected", error |-> "TimeoutError"]
    /\ Rejected("a")
    /\ calls["a"].error = "TimeoutError"
    /\ calls["a"].requests = 1

----------------------------------------------------------------------------
(* The App: a failed analysis *)

\* C19 as stated: when an analysis fails, handleSubmit leaves the history
\* unchanged, leaves the displayed result null and ends with loading = false
C19_FailureLeavesResultNull ==
    [][ \A c \in Calls :
            Fails(c) =>
                /\ history' = history
                /\ appResult' = Null
                /\ loading' = FALSE ]_vars

\* C19, amended: when an analysis fails, handleSubmit leaves the history and
\* the displayed result unchanged and ends with loading = false; the displayed
\* result is then null, as the submit left it, or the result of a history item
\* that was loaded while the analysis was pending
C19_FailureLeavesResultUnchanged ==
    [][ \A c \in Calls :
            Fails(c) =>
                /\ history' = history
                /\ appResult' = appResult
                /\ \/ appResult' = Null
                   \/ \E k \in 1 .. Len(history) : appResult' = history[k].result
                /\ loading' = FALSE ]_vars

\* an analysis failed for want of a response body while the result of the one
\* history item was on display
C19_Witness ==
    /\ Rejected("a")
    /\ calls["a"].error = "Error: No response from Gemini"
    /\ ~loading
    /\ Len(history) = 1
    /\ appResult = history[1].result
    /\ appInput.distance = 8000
    /\ history[1].input.distance = 384400

----------------------------------------------------------------------------
(* The hit flag and the returned probability *)

\* C20 as stated: in every result of the local analyzeAsteroid isHit = true
\* implies that the returned, rounded impactProbability is strictly greater than
\* 60, for every distance, those from 25002 to 25022 km among them
C20_HitImpliesReturnedAbove60 ==
    \A c \in Calls :
        (Resolved(c) /\ calls[c].result.isHit) =>
            FracLess(Frac(60, 1), calls[c].result.impactProbability)

----------------------------------------------------------------------------
(* The App: the loading flag *)

\* the step is a submit that starts the analysis c
Starts(c) == ~Pending(c) /\ calls'[c].status = "pending"

\* C21: every submit that starts an analysis sets loading to true; loading
\* eventually returns to false, whether the analysis succeeds or fails; and
\* loading is true only while an analysis started by handleSubmit is pending
C21_LoadingTracksAnalysis ==
    /\ [][ \A c \in Calls : Starts(c) => (~loading /\ loading') ]_vars
    /\ loading ~> ~loading
    /\ [](loading => \E c \in Calls : Pending(c))

\* a success and then a failure of the remote engine, the flag down again
C21_Witness ==
    /\ env.ENGINE = "remote"
    /\ Rejected("a")
    /\ ~loading
    /\ Len(history) = 1
    /\ appResult = Null

----------------------------------------------------------------------------
(* The App: one analysis at a time *)

\* the analyses in flight
PendingCalls == { c \in Calls : Pending(c) }

\* C22: at most one analysis is pending at any time.  No submit starts an
\* analysis while loading is true or while another analysis is pending, so an
\* analysis that is delivered is the only one outstanding: every analysis
\* submitted before it was delivered before it, and a successful one puts its
\* record ahead of the records of all of them
C22_OneAnalysisAtATime ==
    /\ [](Cardinality(PendingCalls) <= 1)
    /\ [][ \A c \in Calls :
              /\ Starts(c) => (~loading /\ PendingCalls = {})
              /\ (Succeeds(c) \/ Fails(c)) => PendingCalls = {c}
              /\ Succeeds(c) =>
                    /\ Head(history').result = calls'[c].result
                    /\ Tail(history') = history ]_vars

\* a second analysis in flight, after the first was delivered
C22_Witness ==
    /\ loading
    /\ PendingCalls = {"a"}
    /\ Len(history) = 1
    /\ history[1].input.distance = 384400
    /\ calls["a"].input.distance = 8000
    /\ appResult = Null

----------------------------------------------------------------------------
(* The App: the input of a history record *)

\* the records that history held before the step are in history' unchanged,
\* at the end and in their order
RecordsKept ==
    /\ Len(history') >= Len(history)
    /\ \A k \in 1 .. Len(history) :
           history'[Len(history') - Len(history) + k] = history[k]

\* C23: in every history record, input is exactly the input that was passed to
\* analyzeAsteroid to produce the record's result, also when the form was
\* edited or a history item was loaded while the analysis was pending, and no
\* later step changes a stored record.  The input passed is the form's input
\* at the submit; with the local engine the record's result is the engine's
\* result for the record's input
C23_RecordHoldsSubmittedInput ==
    [][ /\ \A c \in Calls :
             /\ Starts(c) => calls'[c].input = appInput
             /\ (Pending(c) /\ calls'[c].status = "pending") =>
                    calls'[c].input = calls[c].input
             /\ Succeeds(c) =>
                    /\ Head(history').input = calls[c].input
                    /\ Head(history').result = calls'[c].result
                    /\ env.ENGINE = "local" =>
                           \E i \in {Head(history').input} :
                               Head(history').result = Result(i, Locals(i), now)
         /\ RecordsKept ]_vars

\* the record of an analysis of the default input, stored after the form went
\* on to another distance and another type
C23_Witness ==
    /\ env.ENGINE = "local"
    /\ Len(history) = 1
    /\ history[1].input = DEFAULT_INPUT
    /\ ~IsNaN(appInput.distance)
    /\ appInput.distance = 8000
    /\ appInput.type = METALLIC
    /\ appResult = history[1].result
    /\ ~loading

----------------------------------------------------------------------------
(* The App: the result on display *)

\* C24: after any sequence of input edits, submits, analysis completions and
\* history loads, the result handed to ResultsDisplay is null or the result of
\* a record that is in the history
C24_ResultNullOrInHistory ==
    \/ appResult = Null
    \/ \E k \in 1 .. Len(history) : appResult = history[k].result

\* the older of two records on display, loaded from the history while no
\* analysis was running
C24_Witness ==
    /\ env.ENGINE = "remote"
    /\ ~loading
    /\ Len(history) = 2
    /\ history[1].result # history[2].result
    /\ appResult = history[2].result
    /\ appInput = history[2].input

----------------------------------------------------------------------------
(* The hit flag against the distance *)

\* the isHit analyzeAsteroid returns for a distance, tabulated over the
\* distances of the model
HitAt == [d \in Distances |-> ImpactLogic(d).isHit]

\* the thresholds of the table: every distance below is a hit, none at or above
HitThresholds == { t \in Distances : \A d \in Distances : HitAt[d] <=> d < t }

\* C25: isHit is non-increasing in distance.  Of two inputs that differ in
\* distance only, d1 <= d2, a hit at d2 implies a hit at d1; so there is one
\* threshold, every distance below it a hit and none at or above it
C25_HitNonIncreasing ==
    /\ \A c \in Calls :
           Resolved(c) =>
               \A d2 \in Distances :
                   /\ (calls[c].input.distance <= d2 /\ HitAt[d2]) =>
                          calls[c].result.isHit
                   /\ (d2 <= calls[c].input.distance /\ calls[c].result.isHit) =>
                          HitAt[d2]
    /\ HitThresholds # {}

\* the last hit: 25022 km is one, 25023 km is none
C25_Witness ==
    /\ Resolved("a")
    /\ calls["a"].input.distance = HitEdge
    /\ calls["a"].result.isHit
    /\ ~HitAt[HitEdge + 1]
    /\ HitAt[0]

====
